---- MODULE Spec2Model ----
(***************************************************************************)
(* A model of osm-rs: the Overpass bounding-box query (src/overpass.rs)    *)
(* and the Nominatim geocode / reverse-geocode queries (src/nominatim.rs). *)
(*                                                                         *)
(* f64 values are modelled as decimal floating-point numbers with eight    *)
(* significant digits, round-to-nearest-even, signed zeros, infinities and *)
(* NaN.  Every arithmetic step of the source is one rounded operation of   *)
(* the model, in the order the source performs it.                         *)
(***************************************************************************)
EXTENDS Integers, Sequences, FiniteSets, TLC

(***************************************************************************)
(* Decimal floating point.  A finite value is s * m * 10^e with m = 0 or   *)
(* 10^7 <= m < 10^8.                                                       *)
(***************************************************************************)
RECURSIVE Pow10(_)
Pow10(n) == IF n = 0 THEN 1 ELSE 10 * Pow10(n - 1)

Limb == 100 * 100
Digits8 == Limb * Limb
MinMant == Digits8 \div 10
MaxExp10 == 300 + 8

Fin(s, m, e) == [k |-> "fin", s |-> s, m |-> m, e |-> e]
Zero(s) == Fin(s, 0, 0)
Inf(s) == [k |-> "inf", s |-> s, m |-> 0, e |-> 0]
NaN == [k |-> "nan", s |-> 1, m |-> 0, e |-> 0]

IsNaN(x) == x.k = "nan"
IsInf(x) == x.k = "inf"
IsZero(x) == x.k = "fin" /\ x.m = 0
is_finite(x) == x.k = "fin"

\* A finite value out of the exponent range becomes an infinity or a zero.
Range(s, m, e) ==
    IF m = 0 THEN Zero(s)
    ELSE IF e + 7 > MaxExp10 THEN Inf(s)
    ELSE IF e + 7 < -MaxExp10 THEN Zero(s)
    ELSE Fin(s, m, e)

\* Scale a positive m < 10^8 up to eight digits (exact).
RECURSIVE Norm(_, _, _)
Norm(s, m, e) ==
    IF m = 0 THEN Zero(s)
    ELSE IF m < MinMant THEN Norm(s, m * 10, e - 1)
    ELSE Range(s, m, e)

\* Round m (eight digits) up or not, then renormalise a carry out of 10^8.
\* up: the discarded part is above one half; tie: it is exactly one half.
Round(s, m, e, up, tie) ==
    LET m1 == IF up \/ (tie /\ m % 2 = 1) THEN m + 1 ELSE m
    IN  IF m1 = Digits8 THEN Range(s, MinMant, e + 1) ELSE Range(s, m1, e)

\* The exact product of two naturals below 10^8 as <<hi, lo>>, base 10^8.
Mul2(x, y) ==
    LET a == x \div Limb
        b == x % Limb
        c == y \div Limb
        d == y % Limb
        mid == a * d + b * c
        loraw == (mid % Limb) * Limb + b * d
    IN  << a * c + (mid \div Limb) + (loraw \div Digits8), loraw % Digits8 >>

PairLeq(p, q) == p[1] < q[1] \/ (p[1] = q[1] /\ p[2] <= q[2])

FNeg(x) == IF IsNaN(x) THEN x ELSE [x EXCEPT !.s = -x.s]

FMul(x, y) ==
    IF IsNaN(x) \/ IsNaN(y) THEN NaN
    ELSE IF (IsInf(x) /\ IsZero(y)) \/ (IsZero(x) /\ IsInf(y)) THEN NaN
    ELSE IF IsInf(x) \/ IsInf(y) THEN Inf(x.s * y.s)
    ELSE IF IsZero(x) \/ IsZero(y) THEN Zero(x.s * y.s)
    ELSE LET p == Mul2(x.m, y.m)
             s == x.s * y.s
         IN  IF p[1] >= MinMant
             THEN Round(s, p[1], x.e + y.e + 8,
                        p[2] > Digits8 \div 2, p[2] = Digits8 \div 2)
             ELSE Round(s, p[1] * 10 + (p[2] \div MinMant), x.e + y.e + 7,
                        (p[2] % MinMant) > MinMant \div 2,
                        (p[2] % MinMant) = MinMant \div 2)

\* Long division: <<floor(r * 10^n / d), remainder>> for r < d.
RECURSIVE LongDiv(_, _, _, _)
LongDiv(q, r, d, n) ==
    IF n = 0 THEN << q, r >>
    ELSE LongDiv(q * 10 + ((r * 10) \div d), (r * 10) % d, d, n - 1)

FDiv(x, y) ==
    IF IsNaN(x) \/ IsNaN(y) THEN NaN
    ELSE IF (IsInf(x) /\ IsInf(y)) \/ (IsZero(x) /\ IsZero(y)) THEN NaN
    ELSE IF IsInf(x) \/ IsZero(y) THEN Inf(x.s * y.s)
    ELSE IF IsInf(y) \/ IsZero(x) THEN Zero(x.s * y.s)
    ELSE LET s == x.s * y.s
             qr == LongDiv(x.m \div y.m, x.m % y.m, y.m, 8)
             q == qr[1]
             r == qr[2]
         IN  IF q >= Digits8
             THEN Round(s, q \div 10, x.e - y.e - 7,
                        (q % 10) > 5 \/ ((q % 10) = 5 /\ r > 0),
                        (q % 10) = 5 /\ r = 0)
             ELSE Round(s, q, x.e - y.e - 8, 2 * r > y.m, 2 * r = y.m)

\* |x| + |y| for finite non-zero x, y with x.e >= y.e, signed s.
AddMag(s, x, y) ==
    LET d == x.e - y.e
    IN  IF d >= 9 THEN x
        ELSE LET p == Pow10(d)
                 sum == x.m + (y.m \div p)
                 rem == y.m % p
             IN  IF sum < Digits8
                 THEN Round(s, sum, x.e, 2 * rem > p, 2 * rem = p)
                 ELSE Round(s, sum \div 10, x.e + 1,
                            (sum % 10) * p + rem > 5 * p,
                            (sum % 10) * p + rem = 5 * p)

\* |x| - |y| for finite non-zero x, y with |x| >= |y| and x.e >= y.e, signed s.
SubMag(s, x, y) ==
    LET d == x.e - y.e
    IN  IF d = 0 THEN
            IF x.m = y.m THEN Zero(1) ELSE Norm(s, x.m - y.m, x.e)
        ELSE IF d >= 10 THEN x
        ELSE LET p == Pow10(d - 1)
                 i == x.m * 10 - (y.m \div p)
                 r == y.m % p
                 j == i - 1
             IN  IF r = 0
                 THEN IF i >= Digits8
                      THEN Round(s, i \div 10, x.e, (i % 10) > 5, (i % 10) = 5)
                      ELSE Norm(s, i, x.e - 1)
                 ELSE IF j >= Digits8
                      THEN Round(s, j \div 10, x.e, (j % 10) >= 5, FALSE)
                      ELSE Round(s, j, x.e - 1, 2 * r < p, 2 * r = p)

\* x is at least y in magnitude (finite, non-zero).
MagGeq(x, y) == x.e > y.e \/ (x.e = y.e /\ x.m >= y.m)

FAdd(x, y) ==
    IF IsNaN(x) \/ IsNaN(y) THEN NaN
    ELSE IF IsInf(x) /\ IsInf(y) THEN (IF x.s = y.s THEN x ELSE NaN)
    ELSE IF IsInf(x) THEN x
    ELSE IF IsInf(y) THEN y
    ELSE IF IsZero(x) /\ IsZero(y) THEN Zero(IF x.s = -1 /\ y.s = -1 THEN -1 ELSE 1)
    ELSE IF IsZero(x) THEN y
    ELSE IF IsZero(y) THEN x
    ELSE LET big == IF MagGeq(x, y) THEN x ELSE y
             small == IF MagGeq(x, y) THEN y ELSE x
         IN  IF x.s = y.s THEN AddMag(big.s, big, small)
             ELSE SubMag(big.s, big, small)

FSub(x, y) == FAdd(x, FNeg(y))

\* The largest r in lo..hi with r * r <= n, n a base-10^8 pair.
RECURSIVE Isqrt(_, _, _)
Isqrt(n, lo, hi) ==
    IF lo >= hi THEN lo
    ELSE LET mid == (lo + hi + 1) \div 2
         IN  IF PairLeq(Mul2(mid, mid), n) THEN Isqrt(n, mid, hi)
             ELSE Isqrt(n, lo, mid - 1)

FSqrt(x) ==
    IF IsNaN(x) THEN NaN
    ELSE IF IsZero(x) THEN x
    ELSE IF x.s = -1 THEN NaN
    ELSE IF IsInf(x) THEN x
    ELSE LET even == x.e % 2 = 0
             n == IF even THEN << x.m, 0 >>
                  ELSE << x.m \div 10, (x.m % 10) * MinMant >>
             r == Isqrt(n, 0, Digits8 - 1)
             sq == Mul2(r, r)
             \* round up iff n > r*r + r, i.e. not n <= r*r + r
             lo == sq[2] + r
             top == << sq[1] + (lo \div Digits8), lo % Digits8 >>
         IN  Round(1, r, IF even THEN (x.e \div 2) - 4 ELSE ((x.e - 1) \div 2) - 3,
                   ~PairLeq(n, top), FALSE)

\* The comparison operators of f64: every comparison with a NaN is false.
FLt(x, y) ==
    IF IsNaN(x) \/ IsNaN(y) THEN FALSE
    ELSE IF IsZero(x) /\ IsZero(y) THEN FALSE
    ELSE IF IsInf(x) THEN x.s = -1 /\ ~(IsInf(y) /\ y.s = -1)
    ELSE IF IsInf(y) THEN y.s = 1
    ELSE IF IsZero(x) THEN y.s = 1
    ELSE IF IsZero(y) THEN x.s = -1
    ELSE IF x.s # y.s THEN x.s = -1
    ELSE IF x.s = 1 THEN ~MagGeq(x, y)
    ELSE ~MagGeq(y, x)

(***************************************************************************)
(* f64::cos and f64::sin, tabulated (correctly rounded to eight digits) on *)
(* the latitudes the model draws.  1.5707963 is the model number nearest   *)
(* to pi/2, as std::f64::consts::FRAC_PI_2 is the f64 nearest to it: in    *)
(* both number systems its cosine is small and not zero.                   *)
(***************************************************************************)
LatZero == Zero(1)
LatHalf == Fin(1, 50000000, -8)
LatOne == Fin(1, 10000000, -7)
LatMinusOne == Fin(-1, 10000000, -7)
LatHalfPi == Fin(1, 15707963, -7)
LatMinusHalfPi == Fin(-1, 15707963, -7)
LatBoston == Fin(1, 42361145, -6)
LatNinety == Fin(1, 90000000, -6)
LatMinusNinety == Fin(-1, 90000000, -6)

cos(x) ==
    CASE x = LatZero -> Fin(1, 10000000, -7)
      [] x = LatHalf -> Fin(1, 87758256, -8)
      [] x = LatOne -> Fin(1, 54030231, -8)
      [] x = LatMinusOne -> Fin(1, 54030231, -8)
      [] x = LatHalfPi -> Fin(1, 26794897, -15)
      [] x = LatMinusHalfPi -> Fin(1, 26794897, -15)
      [] x = LatBoston -> Fin(-1, 50334545, -9)
      [] x = LatNinety -> Fin(-1, 44807362, -8)
      [] x = LatMinusNinety -> Fin(-1, 44807362, -8)

sin(x) ==
    CASE x = LatZero -> Zero(1)
      [] x = LatHalf -> Fin(1, 47942554, -8)
      [] x = LatOne -> Fin(1, 84147098, -8)
      [] x = LatMinusOne -> Fin(-1, 84147098, -8)
      [] x = LatHalfPi -> Fin(1, 10000000, -7)
      [] x = LatMinusHalfPi -> Fin(-1, 10000000, -7)
      [] x = LatBoston -> Fin(-1, 99873241, -8)
      [] x = LatNinety -> Fin(1, 89399666, -8)
      [] x = LatMinusNinety -> Fin(-1, 89399666, -8)

(***************************************************************************)
(* Geodetic math (src/overpass.rs).                                        *)
(***************************************************************************)
\* 6378137.0
WGS84A == Fin(1, 63781370, -1)
\* 6356752.3
WGS84B == Fin(1, 63567523, -1)
\* 1000.0
Thousand == Fin(1, 10000000, -4)

wgs84_earth_radius(lat) ==
    LET an == FMul(FMul(WGS84A, WGS84A), cos(lat))
        bn == FMul(FMul(WGS84B, WGS84B), sin(lat))
        ad == FMul(WGS84A, cos(lat))
        bd == FMul(WGS84B, sin(lat))
    IN  FSqrt(FDiv(FAdd(FMul(an, an), FMul(bn, bn)),
                   FAdd(FMul(ad, ad), FMul(bd, bd))))

BoundingBox(xmin, ymin, xmax, ymax) ==
    [xmin |-> xmin, ymin |-> ymin, xmax |-> xmax, ymax |-> ymax]

from_point(lat, lon, dkm) ==
    LET dm == FMul(dkm, Thousand)
        erad == wgs84_earth_radius(lat)
        prad == FMul(erad, cos(lat))
        dx == FDiv(dm, prad)
        dy == FDiv(dm, erad)
    IN  BoundingBox(FSub(lon, dx), FSub(lat, dy), FAdd(lon, dx), FAdd(lat, dy))

(***************************************************************************)
(* Display for f64 (format!("{}", x) and x.to_string()): the shortest      *)
(* decimal digits of the value, never an exponent, no trailing ".0".       *)
(***************************************************************************)
RECURSIVE Zeros(_)
Zeros(n) == IF n <= 0 THEN "" ELSE "0" \o Zeros(n - 1)

RECURSIVE NumDigits(_)
NumDigits(n) == IF n < 10 THEN 1 ELSE 1 + NumDigits(n \div 10)

\* <<m, e>> with the trailing zeros of m moved into the exponent.
RECURSIVE Strip(_, _)
Strip(m, e) == IF m % 10 = 0 THEN Strip(m \div 10, e + 1) ELSE << m, e >>

Display(x) ==
    IF IsNaN(x) THEN "NaN"
    ELSE LET sign == IF x.s = -1 THEN "-" ELSE ""
         IN  IF IsInf(x) THEN sign \o "inf"
             ELSE IF IsZero(x) THEN sign \o "0"
             ELSE LET me == Strip(x.m, x.e)
                      m == me[1]
                      e == me[2]
                      n == NumDigits(m)
                  IN  IF e >= 0 THEN sign \o ToString(m) \o Zeros(e)
                      ELSE IF n + e <= 0
                      THEN sign \o "0." \o Zeros(-(n + e)) \o ToString(m)
                      ELSE LET p == Pow10(-e)
                               f == m % p
                           IN  sign \o ToString(m \div p) \o "."
                                    \o Zeros((-e) - NumDigits(f)) \o ToString(f)

(***************************************************************************)
(* Results: Ok(v) and Err(e).                                              *)
(***************************************************************************)
Ok(v) == [ok |-> TRUE, v |-> v]
Err(e) == [ok |-> FALSE, err |-> e]

(***************************************************************************)
(* str::parse::<f64>, on a string given as a sequence of characters:       *)
(*   Float  ::= Sign? ( 'inf' | 'infinity' | 'nan' | Number )              *)
(*   Number ::= ( Digit+ | Digit+ '.' Digit* | Digit* '.' Digit+ ) Exp?    *)
(*   Exp    ::= 'e' Sign? Digit+                                           *)
(* letters in either case; nothing before or after (no white space).       *)
(***************************************************************************)
DigitChars == << "0", "1", "2", "3", "4", "5", "6", "7", "8", "9" >>
IsDigit(c) == \E i \in 1..10 : DigitChars[i] = c
DigitVal(c) == (CHOOSE i \in 1..10 : DigitChars[i] = c) - 1
AllDigits(s) == \A i \in 1..Len(s) : IsDigit(s[i])

Lower(c) ==
    CASE c = "I" -> "i" [] c = "N" -> "n" [] c = "F" -> "f" [] c = "T" -> "t"
      [] c = "Y" -> "y" [] c = "A" -> "a" [] c = "E" -> "e" [] OTHER -> c

\* The first index of c in s, or 0.
IndexOf(s, c) ==
    IF \E i \in 1..Len(s) : s[i] = c
    THEN CHOOSE i \in 1..Len(s) : s[i] = c /\ \A j \in 1..(i - 1) : s[j] # c
    ELSE 0

RECURSIVE DropZeros(_)
DropZeros(s) == IF Len(s) > 0 /\ s[1] = "0" THEN DropZeros(Tail(s)) ELSE s

\* The natural number a digit string denotes (at most nine digits are read).
RECURSIVE NatOf(_, _)
NatOf(s, acc) ==
    IF Len(s) = 0 THEN acc
    ELSE IF acc >= MinMant * 10 THEN acc
    ELSE NatOf(Tail(s), acc * 10 + DigitVal(s[1]))

\* s * 0.d1d2d3... * 10^(Len(digits) + e), rounded to eight digits.
DecToFloat(s, digits, e) ==
    LET d == DropZeros(digits)
        e1 == e + Len(d)
    IN  IF Len(d) = 0 THEN Zero(s)
        ELSE IF Len(d) <= 8 THEN Norm(s, NatOf(d, 0), e)
        ELSE LET m == NatOf(SubSeq(d, 1, 8), 0)
                 r == DigitVal(d[9])
                 sticky == \E i \in 10..Len(d) : d[i] # "0"
             IN  Round(s, m, e1 - 8, r > 5 \/ (r = 5 /\ sticky), r = 5 /\ ~sticky)

ExpDigits(x) == IF Len(x) > 0 /\ (x[1] = "+" \/ x[1] = "-") THEN Tail(x) ELSE x
ExpValid(x) == Len(ExpDigits(x)) > 0 /\ AllDigits(ExpDigits(x))
ExpValue(x) ==
    LET n == IF Len(DropZeros(ExpDigits(x))) > 3 THEN 1000
             ELSE NatOf(DropZeros(ExpDigits(x)), 0)
    IN  IF Len(x) > 0 /\ x[1] = "-" THEN -n ELSE n

ParseNumber(sign, t) ==
    LET epos == IndexOf(t, "e")
        mant == IF epos = 0 THEN t ELSE SubSeq(t, 1, epos - 1)
        expo == IF epos = 0 THEN << >> ELSE SubSeq(t, epos + 1, Len(t))
        dot == IndexOf(mant, ".")
        ip == IF dot = 0 THEN mant ELSE SubSeq(mant, 1, dot - 1)
        fp == IF dot = 0 THEN << >> ELSE SubSeq(mant, dot + 1, Len(mant))
    IN  IF AllDigits(ip) /\ AllDigits(fp) /\ Len(ip) + Len(fp) > 0
           /\ (epos = 0 \/ ExpValid(expo))
        THEN Ok(DecToFloat(sign, ip \o fp,
                           (IF epos = 0 THEN 0 ELSE ExpValue(expo)) - Len(fp)))
        ELSE Err("invalid float literal")

ParseF64(s) ==
    LET signed == Len(s) > 0 /\ (s[1] = "+" \/ s[1] = "-")
        sign == IF Len(s) > 0 /\ s[1] = "-" THEN -1 ELSE 1
        body == IF signed THEN Tail(s) ELSE s
        low == [i \in 1..Len(body) |-> Lower(body[i])]
    IN  IF low = << "i", "n", "f" >>
           \/ low = << "i", "n", "f", "i", "n", "i", "t", "y" >>
        THEN Ok(Inf(sign))
        ELSE IF low = << "n", "a", "n" >> THEN Ok(NaN)
        ELSE ParseNumber(sign, low)

(***************************************************************************)
(* JSON documents, as serde_json reads them.  A number carries its literal *)
(* and a string its characters.                                            *)
(***************************************************************************)
JNull == [t |-> "null"]
JNum(lit) == [t |-> "num", lit |-> lit]
JStr(chars) == [t |-> "str", s |-> chars]
JArr(elems) == [t |-> "arr", a |-> elems]
JObj(members) == [t |-> "obj", o |-> members]

None == [some |-> FALSE]
Some(v) == [some |-> TRUE, v |-> v]

(***************************************************************************)
(* The types the responses are decoded into (#[derive(Deserialize)]).      *)
(***************************************************************************)
TF64 == [k |-> "f64"]
TF64FromString == [k |-> "deserialize_number_from_string"]
TU64 == [k |-> "u64"]
TString == [k |-> "String"]
TOptionString == [k |-> "Option<String>"]
TMapString == [k |-> "HashMap<String, String>"]
TVec(ty) == [k |-> "Vec", of |-> ty]
TStruct(fields) == [k |-> "struct", fields |-> fields]
Field(name, key, ty) == [name |-> name, key |-> key, ty |-> ty]

BoundingBoxType ==
    TStruct(<< Field("xmin", "xmin", TF64FromString),
               Field("ymin", "ymin", TF64FromString),
               Field("xmax", "xmax", TF64FromString),
               Field("ymax", "ymax", TF64FromString) >>)

OSMMetaData ==
    TStruct(<< Field("timestamp_osm_base", "timestamp_osm_base", TString),
               Field("copyright", "copyright", TString) >>)

Node ==
    TStruct(<< Field("id", "id", TU64),
               Field("lat", "lat", TF64),
               Field("lon", "lon", TF64),
               Field("tags", "tags", TMapString) >>)

OverpassResponse ==
    TStruct(<< Field("version", "version", TF64),
               Field("generator", "generator", TString),
               Field("osm3s", "osm3s", OSMMetaData),
               Field("elements", "elements", TVec(Node)) >>)

GeocodeResponse ==
    TStruct(<< Field("place_id", "place_id", TU64),
               Field("license", "license", TOptionString),
               Field("osm_type", "osm_type", TString),
               Field("osm_id", "osm_id", TU64),
               Field("lat", "lat", TF64FromString),
               Field("lon", "lon", TF64FromString),
               Field("class", "class", TString),
               Field("place_type", "type", TString),
               Field("place_rank", "place_rank", TU64),
               Field("importance", "importance", TF64FromString),
               Field("addresstype", "addresstype", TString),
               Field("name", "name", TString),
               Field("display_name", "display_name", TString),
               Field("boundingbox", "boundingbox", BoundingBoxType) >>)

(***************************************************************************)
(* Decoding.  A JSON number literal is converted by the decimal-to-float   *)
(* conversion; a u64 takes only an unsigned integer literal.               *)
(***************************************************************************)
NumberAsF64(lit) == ParseF64(lit).v

\* serde_aux::deserialize_number_from_string: the untagged enum
\* { String(String), Number(T) }, the string parsed with str::parse::<T>.
deserialize_number_from_string(j) ==
    IF j.t = "str" THEN
        (IF ParseF64(j.s).ok THEN Ok(ParseF64(j.s).v) ELSE Err("decode"))
    ELSE IF j.t = "num" THEN Ok(NumberAsF64(j.lit))
    ELSE Err("decode")

DecodeF64(j) == IF j.t = "num" THEN Ok(NumberAsF64(j.lit)) ELSE Err("decode")

DecodeU64(j) ==
    IF j.t = "num" /\ AllDigits(j.lit) THEN Ok(NatOf(j.lit, 0)) ELSE Err("decode")

DecodeString(j) == IF j.t = "str" THEN Ok(j.s) ELSE Err("decode")

DecodeOptionString(j) ==
    IF j.t = "null" THEN Ok(None)
    ELSE IF j.t = "str" THEN Ok(Some(j.s))
    ELSE Err("decode")

DecodeMapString(j) ==
    IF j.t = "obj" /\ \A key \in DOMAIN j.o : j.o[key].t = "str"
    THEN Ok([key \in DOMAIN j.o |-> j.o[key].s])
    ELSE Err("decode")

\* A struct is read from an object by key (unknown keys ignored, a missing
\* key an error unless the field is an Option) or from an array by position.
RECURSIVE Decode(_, _)
Decode(ty, j) ==
    CASE ty.k = "f64" -> DecodeF64(j)
      [] ty.k = "deserialize_number_from_string" -> deserialize_number_from_string(j)
      [] ty.k = "u64" -> DecodeU64(j)
      [] ty.k = "String" -> DecodeString(j)
      [] ty.k = "Option<String>" -> DecodeOptionString(j)
      [] ty.k = "HashMap<String, String>" -> DecodeMapString(j)
      [] ty.k = "Vec" ->
            IF j.t # "arr" THEN Err("decode")
            ELSE LET items == [i \in 1..Len(j.a) |-> Decode(ty.of, j.a[i])]
                 IN  IF \A i \in 1..Len(items) : items[i].ok
                     THEN Ok([i \in 1..Len(items) |-> items[i].v])
                     ELSE Err("decode")
      [] ty.k = "struct" ->
            LET fs == ty.fields
                n == Len(fs)
                byPos == j.t = "arr"
                present(i) == IF byPos THEN TRUE ELSE fs[i].key \in DOMAIN j.o
                member(i) == IF byPos THEN j.a[i] ELSE j.o[fs[i].key]
                items == [i \in 1..n |->
                            IF present(i) THEN Decode(fs[i].ty, member(i))
                            ELSE IF fs[i].ty.k = "Option<String>" THEN Ok(None)
                            ELSE Err("decode")]
            IN  IF j.t \notin {"obj", "arr"} THEN Err("decode")
                ELSE IF byPos /\ Len(j.a) # n THEN Err("decode")
                ELSE IF \A i \in 1..n : items[i].ok
                THEN Ok([name \in {fs[i].name : i \in 1..n} |->
                           items[CHOOSE i \in 1..n : fs[i].name = name].v])
                ELSE Err("decode")

(***************************************************************************)
(* Geocode (src/nominatim.rs): the descriptor, its constructor and the     *)
(* request parameters built from it.                                       *)
(***************************************************************************)
Geocode(q, street, city, county, state, country, postalcode) ==
    [q |-> q, street |-> street, city |-> city, county |-> county,
     state |-> state, country |-> country, postalcode |-> postalcode]

Geocode_new(s) == Geocode(Some(s), None, None, None, None, None, None)

ReverseGeocode(lon, lat) == [lon |-> lon, lat |-> lat]

\* HashMap::new() and HashMap::insert.
HashMap_new == << >>
Insert(map, key, value) ==
    [x \in (DOMAIN map) \cup {key} |-> IF x = key THEN value ELSE map[x]]

\* A variant of InsertIfSome: an unset field is inserted as an empty string.
InsertOrEmpty(map, key, field) ==
    Insert(map, key, IF field.some THEN field.v ELSE "")

\* if let Some(v) = &field { params.insert(key, v); }
InsertIfSome(map, key, field) ==
    IF field.some THEN Insert(map, key, field.v) ELSE map

\* A variant of to_params: q does not suppress the structured fields.
to_params_no_precedence(self) ==
    LET p0 == InsertIfSome(HashMap_new, "q", self.q)
        p1 == InsertIfSome(p0, "street", self.street)
        p2 == InsertIfSome(p1, "city", self.city)
        p3 == InsertIfSome(p2, "county", self.county)
        p4 == InsertIfSome(p3, "state", self.state)
        p5 == InsertIfSome(p4, "country", self.country)
    IN  InsertIfSome(p5, "postalcode", self.postalcode)

to_params(self) ==
    LET params == HashMap_new
    IN  IF self.q.some THEN Insert(params, "q", self.q.v)
        ELSE LET p1 == InsertIfSome(params, "street", self.street)
                 p2 == InsertIfSome(p1, "city", self.city)
                 p3 == InsertIfSome(p2, "county", self.county)
                 p4 == InsertIfSome(p3, "state", self.state)
                 p5 == InsertIfSome(p4, "country", self.country)
                 p6 == InsertIfSome(p5, "postalcode", self.postalcode)
             IN  p6

(***************************************************************************)
(* The requests the three search operations build.                         *)
(***************************************************************************)
CARGO_PKG_NAME == "osm-rs"
\* set by Cargo when the crate is built
CARGO_PKG_VERSION == "0.1.0"
APP_USER_AGENT == CARGO_PKG_NAME \o "/" \o CARGO_PKG_VERSION

OverpassConfig(url, timeout, key, val) ==
    [url |-> url, timeout |-> timeout, key |-> key, val |-> val]
NominatimConfig(url, timeout) == [url |-> url, timeout |-> timeout]

\* reqwest::Client::new(): no default User-Agent header.
Client_new == [headers |-> << >>]
\* reqwest::Client::builder().user_agent(ua).build()
Client_builder_user_agent(ua) == [headers |-> Insert(<< >>, "User-Agent", ua)]

Request(client, method, url, query, body) ==
    [method |-> method, url |-> url, headers |-> client.headers,
     query |-> query, body |-> body]

\* format!("[out:json];node[\"{}\"=\"{}\"]({},{},{},{});out center;", ...)
overpass_query(self, config) ==
    "[out:json];node[\"" \o config.key \o "\"=\"" \o config.val \o "\"]("
        \o Display(self.xmin) \o "," \o Display(self.ymin) \o ","
        \o Display(self.xmax) \o "," \o Display(self.ymax) \o ");out center;"

BoundingBox_request(self, config) ==
    Request(Client_new, "POST", config.url, << >>, overpass_query(self, config))

Geocode_request(self, config) ==
    Request(Client_builder_user_agent(APP_USER_AGENT), "GET",
            config.url \o "?format=json", to_params(self), "")

ReverseGeocode_request(self, config) ==
    Request(Client_builder_user_agent(APP_USER_AGENT), "GET",
            config.url \o "?format=json",
            Insert(Insert(HashMap_new, "lat", Display(self.lat)),
                   "lon", Display(self.lon)),
            "")

(***************************************************************************)
(* The objects the callers own: descriptors and configurations.  A search  *)
(* borrows one of each (&self, &Config); two searches may borrow the same. *)
(***************************************************************************)
\* the box of the documentation and of test_bounding_box
DocBox ==
    BoundingBox(Fin(1, 51305220, -6), Fin(-1, 76904297, -8),
                Fin(1, 51822198, -6), Fin(1, 52734375, -8))
\* BoundingBox { xmin: 51.30, ymin: -0.77, xmax: 51.82, ymax: 0.53 }
CityBox ==
    BoundingBox(Fin(1, 51300000, -6), Fin(-1, 77000000, -8),
                Fin(1, 51820000, -6), Fin(1, 53000000, -8))

\* from_point(42.361145, -71.057083, 10.0), as test_bounding_box_from_point
PointBox == from_point(LatBoston, Fin(-1, 71057083, -6), Fin(1, 10000000, -6))
\* a box with fields that are not finite
WildBox == BoundingBox(Inf(-1), Zero(-1), Inf(1), NaN)

\* ReverseGeocode { lat: 42.3554334, lon: -71.060511 }
DocPoint == ReverseGeocode(Fin(-1, 71060511, -6), Fin(1, 42355433, -6))

DocOverpass ==
    OverpassConfig("https://overpass-api.de/api/interpreter", 25, "amenity", "cafe")
DocSearch == NominatimConfig("https://nominatim.openstreetmap.org/search", 25)
DocReverse == NominatimConfig("https://nominatim.openstreetmap.org/reverse", 25)

Descs0 ==
    << [kind |-> "BoundingBox", v |-> DocBox],
       [kind |-> "Geocode", v |-> Geocode_new("Boston")],
       [kind |-> "ReverseGeocode", v |-> DocPoint] >>

Configs0 ==
    << [kind |-> "overpass", v |-> DocOverpass],
       [kind |-> "nominatim", v |-> DocSearch] >>

\* b.search(&c) type-checks: each module has its own Config.
Compatible(desc, cfg) == (desc.kind = "BoundingBox") <=> (cfg.kind = "overpass")

(***************************************************************************)
(* What the servers may answer: a status and a body.  "truncated" is a     *)
(* body whose stream fails before its end.                                 *)
(***************************************************************************)
Statuses == {200, 500}
Bodies == {"overpass", "geocode_list", "geocode_object", "truncated"}

CharsNode == << "n", "o", "d", "e" >>
CharsCafe == << "c", "a", "f", "e" >>
CharsCity == << "c", "i", "t", "y" >>
CharsBoston == << "B", "o", "s", "t", "o", "n" >>

GeocodeObject ==
    JObj(("place_id" :> JNum(<< "1", "7" >>))
      @@ ("licence" :> JStr(<< "O", "D", "b", "L" >>))
      @@ ("osm_type" :> JStr(CharsNode))
      @@ ("osm_id" :> JNum(<< "4", "2" >>))
      @@ ("lat" :> JStr(<< "4", "2", ".", "3", "5", "5", "4", "3", "3", "4" >>))
      @@ ("lon" :> JStr(<< "-", "7", "1", ".", "0", "6", "0", "5", "1", "1" >>))
      @@ ("class" :> JStr(<< "p", "l", "a", "c", "e" >>))
      @@ ("type" :> JStr(CharsCity))
      @@ ("place_rank" :> JNum(<< "1", "6" >>))
      @@ ("importance" :> JNum(<< "0", ".", "5" >>))
      @@ ("addresstype" :> JStr(CharsCity))
      @@ ("name" :> JStr(CharsBoston))
      @@ ("display_name" :> JStr(CharsBoston))
      @@ ("boundingbox" :>
            JArr(<< JStr(<< "4", "2", ".", "2" >>), JStr(<< "4", "2", ".", "4" >>),
                    JStr(<< "-", "7", "1", ".", "2" >>),
                    JStr(<< "-", "7", "0", ".", "8" >>) >>)))

OverpassObject ==
    JObj(("version" :> JNum(<< "0", ".", "6" >>))
      @@ ("generator" :> JStr(<< "O", "v", "e", "r", "p", "a", "s", "s" >>))
      @@ ("osm3s" :>
            JObj(("timestamp_osm_base" :> JStr(<< "2", "0", "2", "4" >>))
              @@ ("copyright" :> JStr(<< "O", "S", "M" >>))))
      @@ ("elements" :>
            JArr(<< JObj(("type" :> JStr(CharsNode))
                      @@ ("id" :> JNum(<< "1" >>))
                      @@ ("lat" :> JNum(<< "5", "1", ".", "5" >>))
                      @@ ("lon" :> JNum(<< "-", "0", ".", "1" >>))
                      @@ ("tags" :> JObj("amenity" :> JStr(CharsCafe)))) >>)))

Json(body) ==
    CASE body = "overpass" -> OverpassObject
      [] body = "geocode_list" -> JArr(<< GeocodeObject >>)
      [] body = "geocode_object" -> GeocodeObject

TransportError == [kind |-> "error", status |-> 0, body |-> ""]
Response(status, body) == [kind |-> "response", status |-> status, body |-> body]

\* What each search decodes the body into.
ResponseType(kind) ==
    CASE kind = "BoundingBox" -> OverpassResponse
      [] kind = "Geocode" -> TVec(GeocodeResponse)
      [] kind = "ReverseGeocode" -> GeocodeResponse

BuildRequest(desc, cfg) ==
    CASE desc.kind = "BoundingBox" -> BoundingBox_request(desc.v, cfg.v)
      [] desc.kind = "Geocode" -> Geocode_request(desc.v, cfg.v)
      [] desc.kind = "ReverseGeocode" -> ReverseGeocode_request(desc.v, cfg.v)

\* res.json::<T>().await?  -- the status of the response is not looked at.
json(ty, resp) ==
    IF resp.body = "truncated" THEN Err("transport")
    ELSE LET decoded == Decode(ty, Json(resp.body))
         IN  IF decoded.ok THEN Ok(decoded.v) ELSE Err("decode")

NumCalls == 2
Calls == 1..NumCalls

NoRequest == [method |-> "none"]
NoResponse == [kind |-> "none", status |-> 0, body |-> ""]
Pending == [pending |-> TRUE]

\* A variant of StoreResponse: one response buffer shared by all the calls.
StoreResponseShared(resps, c, r) == [x \in DOMAIN resps |-> r]

\* let res = ...send().await?  -- the response is a local of the call.
StoreResponse(resps, c, r) == [resps EXCEPT ![c] = r]

VARIABLES
    descs,      \* the descriptors the callers own
    configs,    \* the configurations the callers own
    pc,         \* per call: "idle", "awaiting", "received", "done", "panicked"
    self_,      \* per call: the descriptor borrowed (&self), an index of descs
    config,     \* per call: the Config borrowed, an index of configs
    request,    \* per call: the request handed to the transport
    sent,       \* per call: how many requests it handed to the transport
    response,   \* per call: the local res
    delivered,  \* per call: what the transport answered (history)
    decodes,    \* per call: how many times a body was decoded (history)
    result      \* per call: the value returned to the caller

searchVars == << descs, configs, pc, self_, config, request, sent, response,
                 delivered, decodes, result >>

VARIABLES
    g_pc,       \* "off", "start", "built", "done"
    geo,        \* the descriptor
    g_via,      \* how it was built: "literal" or "new"
    g_arg,      \* the argument of Geocode::new
    params      \* the mapping to_params returned

paramsVars == << g_pc, geo, g_via, g_arg, params >>

VARIABLES
    b_pc,       \* "off", "start", "done"
    b_lat,      \* the arguments
    b_lon,
    b_dkm,
    bbox        \* the box returned

boxVars == << b_pc, b_lat, b_lon, b_dkm, bbox >>

VARIABLES
    d_pc,       \* "off", "start", "done"
    d_field,    \* the field replaced (a field of the struct)
    d_val,      \* the value put there (an index of Values)
    d_base,     \* how the other numeric fields are encoded
    d_out       \* the result of the decoding

decodeVars == << d_pc, d_field, d_val, d_base, d_out >>

VARIABLES
    r_pc,       \* "off", "start", "done"
    r_desc,     \* the descriptor searched (self)
    r_cfg,      \* the Config
    r_request   \* the request search builds for them

requestVars == << r_pc, r_desc, r_cfg, r_request >>

vars == << searchVars, paramsVars, boxVars, decodeVars, requestVars >>

SearchInit ==
    /\ descs = Descs0
    /\ configs = Configs0
    /\ pc = [c \in Calls |-> "idle"]
    /\ self_ = [c \in Calls |-> 0]
    /\ config = [c \in Calls |-> 0]
    /\ request = [c \in Calls |-> NoRequest]
    /\ sent = [c \in Calls |-> 0]
    /\ response = [c \in Calls |-> NoResponse]
    /\ delivered = [c \in Calls |-> NoResponse]
    /\ decodes = [c \in Calls |-> 0]
    /\ result = [c \in Calls |-> Pending]

\* search(&self, config) up to its first await: the client is built, the
\* request rendered and handed to the transport.
Invoke(c, d, g) ==
    /\ pc[c] = "idle"
    /\ Compatible(descs[d], configs[g])
    /\ self_' = [self_ EXCEPT ![c] = d]
    /\ config' = [config EXCEPT ![c] = g]
    /\ request' = [request EXCEPT ![c] = BuildRequest(descs[d], configs[g])]
    /\ sent' = [sent EXCEPT ![c] = @ + 1]
    /\ pc' = [pc EXCEPT ![c] = "awaiting"]
    /\ UNCHANGED << descs, configs, response, delivered, decodes, result >>
    /\ UNCHANGED << paramsVars, boxVars, decodeVars, requestVars >>

\* The client cannot be built (no TLS backend): .build()? returns the error
\* in nominatim.rs, Client::new() panics in overpass.rs.
InvokeNoClient(c, d, g) ==
    /\ pc[c] = "idle"
    /\ Compatible(descs[d], configs[g])
    /\ self_' = [self_ EXCEPT ![c] = d]
    /\ config' = [config EXCEPT ![c] = g]
    /\ IF descs[d].kind = "BoundingBox"
       THEN pc' = [pc EXCEPT ![c] = "panicked"] /\ UNCHANGED result
       ELSE /\ pc' = [pc EXCEPT ![c] = "done"]
            /\ result' = [result EXCEPT ![c] = Err("builder")]
    /\ UNCHANGED << descs, configs, request, sent, response, delivered, decodes >>
    /\ UNCHANGED << paramsVars, boxVars, decodeVars, requestVars >>

\* A variant of SendFails: the request is sent again after a failure.
SendFailsRetry(c) ==
    /\ pc[c] = "awaiting"
    /\ sent[c] < 3
    /\ sent' = [sent EXCEPT ![c] = @ + 1]
    /\ UNCHANGED << descs, configs, pc, self_, config, request, response,
                    delivered, decodes, result >>
    /\ UNCHANGED << paramsVars, boxVars, decodeVars, requestVars >>

\* send().await? fails: connection refused, timeout, ...
SendFails(c) ==
    /\ pc[c] = "awaiting"
    /\ delivered' = [delivered EXCEPT ![c] = TransportError]
    /\ result' = [result EXCEPT ![c] = Err("transport")]
    /\ pc' = [pc EXCEPT ![c] = "done"]
    /\ UNCHANGED << descs, configs, self_, config, request, sent, response, decodes >>
    /\ UNCHANGED << paramsVars, boxVars, decodeVars, requestVars >>

\* send().await? yields a response, whatever its status.
Respond(c, status, body) ==
    /\ pc[c] = "awaiting"
    /\ delivered' = [delivered EXCEPT ![c] = Response(status, body)]
    /\ response' = StoreResponse(response, c, Response(status, body))
    /\ pc' = [pc EXCEPT ![c] = "received"]
    /\ UNCHANGED << descs, configs, self_, config, request, sent, decodes, result >>
    /\ UNCHANGED << paramsVars, boxVars, decodeVars, requestVars >>

\* res.json().await? and Ok(resp)
Finish(c) ==
    /\ pc[c] = "received"
    /\ result' = [result EXCEPT
                    ![c] = json(ResponseType(descs[self_[c]].kind), response[c])]
    /\ decodes' = [decodes EXCEPT
                     ![c] = IF response[c].body = "truncated" THEN @ ELSE @ + 1]
    /\ pc' = [pc EXCEPT ![c] = "done"]
    /\ UNCHANGED << descs, configs, self_, config, request, sent, response, delivered >>
    /\ UNCHANGED << paramsVars, boxVars, decodeVars, requestVars >>

(***************************************************************************)
(* Geocode::new and Geocode::to_params on their own: a descriptor is built *)
(* (by a struct literal or by new) and its parameters are computed.        *)
(***************************************************************************)
OptQ == << None, Some("Boston"), Some("") >>
OptStreet == << None, Some("1 Main St") >>
OptCity == << None, Some("Boston") >>
OptCounty == << None, Some("Suffolk") >>
OptState == << None, Some("MA") >>
OptCountry == << None, Some("") >>
OptPostalcode == << None, Some("02108") >>
NewArgs == {"Boston", "MA", ""}
StructuredFields == {"street", "city", "county", "state", "country", "postalcode"}

ParamsOff ==
    /\ g_pc = "off"
    /\ geo = Geocode_new("")
    /\ g_via = ""
    /\ g_arg = ""
    /\ params = HashMap_new

ParamsInit ==
    /\ g_pc = "start"
    /\ geo = Geocode_new("")
    /\ g_via = ""
    /\ g_arg = ""
    /\ params = HashMap_new

Literal(q, street, city, county, state, country, postalcode) ==
    /\ g_pc = "start"
    /\ geo' = Geocode(q, street, city, county, state, country, postalcode)
    /\ g_via' = "literal"
    /\ g_pc' = "built"
    /\ UNCHANGED << g_arg, params >>
    /\ UNCHANGED << searchVars, boxVars, decodeVars, requestVars >>

New(s) ==
    /\ g_pc = "start"
    /\ geo' = Geocode_new(s)
    /\ g_via' = "new"
    /\ g_arg' = s
    /\ g_pc' = "built"
    /\ UNCHANGED params
    /\ UNCHANGED << searchVars, boxVars, decodeVars, requestVars >>

ToParams ==
    /\ g_pc = "built"
    /\ params' = to_params(geo)
    /\ g_pc' = "done"
    /\ UNCHANGED << geo, g_via, g_arg >>
    /\ UNCHANGED << searchVars, boxVars, decodeVars, requestVars >>

(***************************************************************************)
(* BoundingBox::from_point on its own.                                     *)
(***************************************************************************)
Lats == << LatZero, LatHalf, LatOne, LatMinusOne, LatHalfPi, LatMinusHalfPi,
           LatBoston, LatNinety, LatMinusNinety >>
\* -71.057083 (test_bounding_box_from_point), 0.0, 1.0, 180.0
Lons == << Fin(-1, 71057083, -6), Zero(1), Fin(1, 10000000, -7),
           Fin(1, 18000000, -5) >>
\* 10.0 (test_bounding_box_from_point), 1.0, 0.0
Dists == << Fin(1, 10000000, -6), Fin(1, 10000000, -7), Zero(1) >>

NoBox == BoundingBox(NaN, NaN, NaN, NaN)

BoxOff ==
    /\ b_pc = "off"
    /\ b_lat = Zero(1)
    /\ b_lon = Zero(1)
    /\ b_dkm = Zero(1)
    /\ bbox = NoBox

BoxInit ==
    /\ b_pc = "start"
    /\ \E i \in 1..Len(Lats) : b_lat = Lats[i]
    /\ \E i \in 1..Len(Lons) : b_lon = Lons[i]
    /\ \E i \in 1..Len(Dists) : b_dkm = Dists[i]
    /\ bbox = NoBox

FromPoint ==
    /\ b_pc = "start"
    /\ bbox' = from_point(b_lat, b_lon, b_dkm)
    /\ b_pc' = "done"
    /\ UNCHANGED << b_lat, b_lon, b_dkm >>
    /\ UNCHANGED << searchVars, paramsVars, decodeVars, requestVars >>

(***************************************************************************)
(* Decoding a GeocodeResponse on its own: one field of a well-formed       *)
(* document is replaced by a chosen JSON value and the document decoded.   *)
(***************************************************************************)
C42_5 == << "4", "2", ".", "5" >>
C17 == << "1", "7" >>
CLon == << "-", "7", "1", ".", "0", "6", "0", "5", "1", "1" >>
C1e2 == << "1", "e", "2" >>

\* decimal: the value is a number, or a string holding a decimal number.
Values ==
    << [j |-> JNum(C42_5), decimal |-> TRUE, lit |-> C42_5],
       [j |-> JStr(C42_5), decimal |-> TRUE, lit |-> C42_5],
       [j |-> JNum(C17), decimal |-> TRUE, lit |-> C17],
       [j |-> JStr(C17), decimal |-> TRUE, lit |-> C17],
       [j |-> JNum(CLon), decimal |-> TRUE, lit |-> CLon],
       [j |-> JStr(CLon), decimal |-> TRUE, lit |-> CLon],
       [j |-> JNum(C1e2), decimal |-> TRUE, lit |-> C1e2],
       [j |-> JStr(C1e2), decimal |-> TRUE, lit |-> C1e2],
       [j |-> JNull, decimal |-> FALSE, lit |-> << >>],
       [j |-> JStr(<< "a", "b", "c" >>), decimal |-> FALSE, lit |-> << >>],
       [j |-> JStr(<< >>), decimal |-> FALSE, lit |-> << >>],
       [j |-> JStr(<< "4", "2", ".", "5", "N" >>), decimal |-> FALSE, lit |-> << >>],
       [j |-> JStr(<< "N", "a", "N" >>), decimal |-> FALSE, lit |-> << >>],
       [j |-> JStr(<< "i", "n", "f" >>), decimal |-> FALSE, lit |-> << >>] >>

BoxFields == {"xmin", "ymin", "xmax", "ymax"}
CoercedFields == {"lat", "lon", "importance"} \cup BoxFields
U64Fields == {"place_id", "osm_id", "place_rank"}
StringFields == {"osm_type", "class", "place_type", "addresstype", "name",
                 "display_name"}
DecodeFields == CoercedFields \cup U64Fields \cup StringFields \cup {"license"}
Bases == {"numbers", "strings"}

\* #[serde(rename = "type")]
KeyOf(field) == IF field = "place_type" THEN "type" ELSE field

BoxPosition(field) ==
    CASE field = "xmin" -> 1 [] field = "ymin" -> 2
      [] field = "xmax" -> 3 [] field = "ymax" -> 4

\* The well-formed document: its numeric fields as numbers (the box an
\* object) or as strings (the box an array, as Nominatim sends it).
BaseNumber(base, lit) == IF base = "numbers" THEN JNum(lit) ELSE JStr(lit)

BaseBox(base) ==
    IF base = "numbers"
    THEN JObj([f \in BoxFields |-> JNum(C42_5)])
    ELSE JArr([i \in 1..4 |-> JStr(C42_5)])

BaseDocument(base) ==
    [GeocodeObject.o EXCEPT
        !["lat"] = BaseNumber(base, C42_5),
        !["lon"] = BaseNumber(base, CLon),
        !["importance"] = BaseNumber(base, C42_5),
        !["boundingbox"] = BaseBox(base)]

Document(base, field, value) ==
    IF field \in BoxFields
    THEN JObj([BaseDocument(base) EXCEPT
                 !["boundingbox"] =
                    IF base = "numbers"
                    THEN JObj([BaseBox(base).o EXCEPT ![field] = value])
                    ELSE JArr([BaseBox(base).a EXCEPT ![BoxPosition(field)] = value])])
    ELSE JObj((KeyOf(field) :> value) @@ BaseDocument(base))

\* The decoded value of a field.
FieldOf(decoded, field) ==
    IF field \in BoxFields THEN decoded["boundingbox"][field] ELSE decoded[field]

DecodeOff ==
    /\ d_pc = "off"
    /\ d_field = "lat"
    /\ d_val = 1
    /\ d_base = "numbers"
    /\ d_out = Err("none")

DecodeInit ==
    /\ d_pc = "start"
    /\ d_field \in DecodeFields
    /\ d_val \in 1..Len(Values)
    /\ d_base \in Bases
    /\ d_out = Err("none")

DecodeDocument ==
    /\ d_pc = "start"
    /\ d_out' = Decode(GeocodeResponse, Document(d_base, d_field, Values[d_val].j))
    /\ d_pc' = "done"
    /\ UNCHANGED << d_field, d_val, d_base >>
    /\ UNCHANGED << searchVars, paramsVars, boxVars, requestVars >>

(***************************************************************************)
(* The request of a search on its own: search(&self, config) up to the     *)
(* point where the request is handed to the transport.                     *)
(***************************************************************************)
Boxes ==
    << DocBox, CityBox, PointBox, WildBox,
       BoundingBox(Fin(1, 10000000, -7), Fin(1, 20000000, -7),
                   Fin(1, 30000000, -7), Fin(1, 40000000, -7)) >>
OverpassConfigs ==
    << DocOverpass,
       OverpassConfig("https://overpass.example/api", 0, "shop", "bakery"),
       OverpassConfig("https://overpass.example/api", 25, "name", "Caf\\u00e9"),
       OverpassConfig("", 255, "", "") >>
Geocodes ==
    << Geocode_new("Boston"),
       Geocode_new(""),
       Geocode(Some("Boston"), None, Some("Cambridge"), None, Some("MA"), None, None),
       Geocode(None, None, Some("Boston"), None, Some("MA"), None, None),
       Geocode(None, Some("1 Main St"), None, Some("Suffolk"), None, Some("US"),
               Some("02108")),
       Geocode(Some("Boston"), None, None, None, None, None, Some("")),
       Geocode(None, None, None, None, None, Some("US"), None),
       Geocode(None, None, None, None, None, None, None) >>
Points ==
    << DocPoint,
       ReverseGeocode(Zero(-1), Fin(1, 90000000, -6)),
       ReverseGeocode(Fin(1, 10000000, 14), Fin(-1, 12345678, -12)),
       ReverseGeocode(NaN, Inf(1)) >>
NominatimConfigs ==
    << DocSearch, DocReverse, NominatimConfig("", 0) >>

NoDesc == [kind |-> "none"]
NoConfig == [kind |-> "none"]

RequestOff ==
    /\ r_pc = "off"
    /\ r_desc = NoDesc
    /\ r_cfg = NoConfig
    /\ r_request = NoRequest

RequestInit ==
    /\ r_pc = "start"
    /\ \/ /\ \E i \in 1..Len(Boxes) : r_desc = [kind |-> "BoundingBox", v |-> Boxes[i]]
          /\ \E i \in 1..Len(OverpassConfigs) :
                r_cfg = [kind |-> "overpass", v |-> OverpassConfigs[i]]
       \/ /\ \/ \E i \in 1..Len(Geocodes) :
                    r_desc = [kind |-> "Geocode", v |-> Geocodes[i]]
             \/ \E i \in 1..Len(Points) :
                    r_desc = [kind |-> "ReverseGeocode", v |-> Points[i]]
          /\ \E i \in 1..Len(NominatimConfigs) :
                r_cfg = [kind |-> "nominatim", v |-> NominatimConfigs[i]]
    /\ r_request = NoRequest

Render ==
    /\ r_pc = "start"
    /\ r_request' = BuildRequest(r_desc, r_cfg)
    /\ r_pc' = "done"
    /\ UNCHANGED << r_desc, r_cfg >>
    /\ UNCHANGED << searchVars, paramsVars, boxVars, decodeVars >>

(***************************************************************************)
(* The specifications.                                                     *)
(***************************************************************************)
\* Concurrent searches.
Init == SearchInit /\ ParamsOff /\ BoxOff /\ DecodeOff /\ RequestOff

Next ==
    \/ \E c \in Calls, d \in 1..Len(Descs0), g \in 1..Len(Configs0) : Invoke(c, d, g)
    \/ \E c \in Calls, d \in 1..Len(Descs0), g \in 1..Len(Configs0) :
            InvokeNoClient(c, d, g)
    \/ \E c \in Calls : SendFails(c)
    \/ \E c \in Calls, status \in Statuses, body \in Bodies : Respond(c, status, body)
    \/ \E c \in Calls : Finish(c)

Spec == Init /\ [][Next]_vars

\* Geocode::new and Geocode::to_params.
InitParams == SearchInit /\ ParamsInit /\ BoxOff /\ DecodeOff /\ RequestOff

NextParams ==
    \/ \E a \in 1..Len(OptQ), b \in 1..Len(OptStreet), c \in 1..Len(OptCity),
          d \in 1..Len(OptCounty), e \in 1..Len(OptState),
          f \in 1..Len(OptCountry), g \in 1..Len(OptPostalcode) :
            Literal(OptQ[a], OptStreet[b], OptCity[c], OptCounty[d], OptState[e],
                    OptCountry[f], OptPostalcode[g])
    \/ \E s \in NewArgs : New(s)
    \/ ToParams

SpecParams == InitParams /\ [][NextParams]_vars

\* BoundingBox::from_point.
InitBox == SearchInit /\ ParamsOff /\ BoxInit /\ DecodeOff /\ RequestOff

NextBox == FromPoint

SpecBox == InitBox /\ [][NextBox]_vars

\* Decoding a GeocodeResponse.
InitDecode == SearchInit /\ ParamsOff /\ BoxOff /\ DecodeInit /\ RequestOff

NextDecode == DecodeDocument

SpecDecode == InitDecode /\ [][NextDecode]_vars

\* The request of a search.
InitRequest == SearchInit /\ ParamsOff /\ BoxOff /\ DecodeOff /\ RequestInit

NextRequest == Render

SpecRequest == InitRequest /\ [][NextRequest]_vars

(***************************************************************************)
(* The claims.                                                             *)
(***************************************************************************)
SearchKind(c) == Descs0[self_[c]].kind

\* C1: the body BoundingBox::search sends lists the coordinates
\* in the order ymin, xmin, ymax, xmax, with key and val from the Config.
C1_QueryOrderSouthWest ==
    (r_pc = "done" /\ r_desc.kind = "BoundingBox") =>
        r_request.body =
            "[out:json];node[\"" \o r_cfg.v.key \o "\"=\"" \o r_cfg.v.val \o "\"]("
                \o Display(r_desc.v.ymin) \o "," \o Display(r_desc.v.xmin) \o ","
                \o Display(r_desc.v.ymax) \o "," \o Display(r_desc.v.xmax)
                \o ");out center;"

\* C2: every request a search sends carries the User-Agent header
\* <library name>/<version>.
C2_UserAgentOnEveryRequest ==
    \A c \in Calls :
        sent[c] > 0 =>
            /\ "User-Agent" \in DOMAIN request[c].headers
            /\ request[c].headers["User-Agent"] =
                    CARGO_PKG_NAME \o "/" \o CARGO_PKG_VERSION

\* C3: when q is set, to_params returns exactly { "q": q }, whatever
\* structured fields are set; Geocode::new(s).to_params() is { "q": s }.
C3_QueryDominates ==
    g_pc = "done" =>
        /\ geo.q.some => (DOMAIN params = {"q"} /\ params["q"] = geo.q.v)
        /\ g_via = "new" => (DOMAIN params = {"q"} /\ params["q"] = g_arg)

\* to_params has run on a descriptor with q and structured fields set.
C3_Witness ==
    /\ g_pc = "done"
    /\ geo.q.some
    /\ geo.city.some
    /\ geo.postalcode.some

\* C4: when q is unset, the keys of to_params are exactly the structured
\* fields that are set, each mapped to its value; none set, none returned.
C4_StructuredFields ==
    (g_pc = "done" /\ ~geo.q.some) =>
        /\ DOMAIN params = {f \in StructuredFields : geo[f].some}
        /\ \A f \in DOMAIN params : params[f] = geo[f].v

\* to_params has run on a descriptor without q, some structured fields set
\* and some not.
C4_Witness ==
    /\ g_pc = "done"
    /\ ~geo.q.some
    /\ geo.city.some
    /\ geo.state.some
    /\ ~geo.street.some
    /\ ~geo.postalcode.some

\* C5: a search whose response has a non-2xx status returns an error.
C5_NonSuccessStatusIsError ==
    \A c \in Calls :
        (pc[c] = "done" /\ delivered[c].kind = "response"
            /\ delivered[c].status \notin 200..299) => ~result[c].ok

PolarLats == {LatNinety, LatMinusNinety, LatHalfPi, LatMinusHalfPi}

\* C7: at a polar latitude from_point returns a box whose xmin and xmax are
\* not finite (it has no way to reject its arguments).
C7_PolarNotFinite ==
    (b_pc = "done" /\ b_lat \in PolarLats) =>
        (~is_finite(bbox.xmin) /\ ~is_finite(bbox.xmax))

\* C8: for d > 0 and a latitude away from the poles, from_point returns
\* xmin < lon < xmax and ymin < lat < ymax, the bounds being lon -+ dx and
\* lat -+ dy with dx = 1000 d / (R(lat) cos(lat)) and dy = 1000 d / R(lat).
C8_BoxContainsPoint ==
    (b_pc = "done" /\ b_lat \notin PolarLats /\ FLt(Zero(1), b_dkm)) =>
        LET dm == FMul(Thousand, b_dkm)
            dx == FDiv(dm, FMul(wgs84_earth_radius(b_lat), cos(b_lat)))
            dy == FDiv(dm, wgs84_earth_radius(b_lat))
        IN  /\ bbox = BoundingBox(FSub(b_lon, dx), FSub(b_lat, dy),
                                  FAdd(b_lon, dx), FAdd(b_lat, dy))
            /\ FLt(bbox.xmin, b_lon) /\ FLt(b_lon, bbox.xmax)
            /\ FLt(bbox.ymin, b_lat) /\ FLt(b_lat, bbox.ymax)

\* C9: lat, lon, importance and the four fields of the box accept a number
\* or a string holding a decimal number, with the same float for both; null
\* or any other string fails the decoding; no other field takes a number
\* from a string.
C9_NumericCoercion ==
    d_pc = "done" =>
        LET value == Values[d_val]
        IN  /\ (d_field \in CoercedFields /\ value.decimal) =>
                    /\ d_out.ok
                    /\ FieldOf(d_out.v, d_field) = NumberAsF64(value.lit)
            /\ (d_field \in CoercedFields /\ ~value.decimal) => ~d_out.ok
            /\ (d_field \in U64Fields /\ value.j.t = "str") => ~d_out.ok
            /\ (d_field \in StringFields /\ value.j.t = "str") =>
                    (d_out.ok /\ FieldOf(d_out.v, d_field) = value.j.s)

\* C10: under every interleaving, the request of a call is the one built
\* from its own descriptor and Config, its response is the one delivered to
\* it, its result is the one that response decodes to, and the descriptors
\* and configurations are as the callers made them.
C10_CallsIndependent ==
    /\ descs = Descs0
    /\ configs = Configs0
    /\ \A c \in Calls :
        /\ sent[c] > 0 => request[c] = BuildRequest(Descs0[self_[c]], Configs0[config[c]])
        /\ pc[c] = "received" => response[c] = delivered[c]
        /\ (pc[c] = "done" /\ delivered[c].kind = "error") =>
                result[c] = Err("transport")
        /\ (pc[c] = "done" /\ delivered[c].kind = "response") =>
                result[c] = json(ResponseType(SearchKind(c)), delivered[c])

\* Two calls are in flight at once, on different descriptors, each with its
\* own response.
C10_Witness ==
    \E c1, c2 \in Calls :
        /\ c1 # c2
        /\ pc[c1] = "received" /\ pc[c2] = "received"
        /\ self_[c1] # self_[c2]
        /\ response[c1] # response[c2]

====
